---------------------------- MODULE Spec2Model ----------------------------
(***************************************************************************)
(* SMART-2 recurrent CVD risk calculator (src/cvd_risk_app.py).            *)
(*                                                                         *)
(* The program is a Streamlit script: the session keeps the value of every *)
(* input widget, and every interaction changes one widget and re-executes  *)
(* the script top to bottom, which recomputes baseline_risk, rr_reduction, *)
(* projected_risk and the recommendation block.                            *)
(*                                                                         *)
(* Units.  All quantities are integers:                                    *)
(*   ldl, weight          tenths (ldl = 18 is 1.8 mmol/L)                  *)
(*   baseline_risk        tenths of a percent (round(risk_percent, 1))     *)
(*   rr_reduction         percent                                          *)
(*   projected_risk       thousandths of a percent: the exact value of     *)
(*                        baseline_risk * (1 - rr_reduction/100)           *)
(*   linear predictor lp  units of 10^-5 (exact for these inputs)          *)
(* Line 105 of the script (the BMI display) has an unbalanced parenthesis; *)
(* it is read as round(weight / ((height/100)**2), 1), a display-only      *)
(* value that no computation below reads, and is not modelled.             *)
(***************************************************************************)
EXTENDS Integers, Sequences, FiniteSets, TLC

(***************************************************************************)
(* Coefficients of calculate_smart2_risk, in units of 10^-4.               *)
(***************************************************************************)
CoefIntercept == -81937
CoefAge == 635
CoefFemale == -3372
CoefDiabetes == 5034
CoefSmoker == 7862
CoefEgfrLt30 == 9235
CoefEgfr30to60 == 5539
CoefPolyvascular == 5434
CoefLdl == 2436
CoefSbp == 83

(***************************************************************************)
(* Widget domains (min_value / max_value / default value).                 *)
(***************************************************************************)
AgeMin == 30
AgeMax == 90
AgeDefault == 65
WeightMin == 400
WeightMax == 2000
WeightDefault == 750
LdlMin == 5
LdlMax == 60
LdlDefault == 30
SbpMin == 80
SbpMax == 220
SbpDefault == 140
EgfrMin == 15
EgfrMax == 120
EgfrDefault == 60
TargetMin == 80
TargetMax == 220
TargetDefault == 130
Pcsk9LdlThreshold == 18

(***************************************************************************)
(* Bounds of the model: the values the user moves each widget to.          *)
(***************************************************************************)
TargetSpread == 1

\* a number_input or slider only takes values between its min_value and max_value
InRange(S, lo, hi) == {v \in S : lo <= v /\ v <= hi}

AgeChoices == InRange({AgeMin, AgeDefault, AgeMax}, AgeMin, AgeMax)
WeightChoices == InRange({WeightDefault, 900}, WeightMin, WeightMax)
LdlChoices == InRange({15, Pcsk9LdlThreshold, LdlDefault, LdlMax}, LdlMin, LdlMax)
SbpChoices == InRange({SbpDefault, SbpMax}, SbpMin, SbpMax)
EgfrChoices == InRange({25, 45, EgfrDefault}, EgfrMin, EgfrMax)
TargetChoices == InRange({TargetDefault - k : k \in 0..TargetSpread}, TargetMin, TargetMax)
SexChoices == {"Male", "Female"}
StatinChoices == {"None", "Moderate", "High"}

\* Arguments of direct calls of calculate_smart2_risk: the bounds of the age and
\* ldl domains and the values just outside them.
CallAges == {25, AgeMin, AgeMax, 95}
CallLdls == {4, LdlMin, LdlMax, 70}

(***************************************************************************)
(* Fixed-point arithmetic for np.exp.  A number x in [0, 3) is the triple  *)
(* <<lo, mid, hi>> of base-10^4 limbs of floor(x * 10^12).  With this      *)
(* precision the rounded risk below equals the script's float result for   *)
(* every linear predictor the widget domains can produce (all 390063 were  *)
(* compared).                                                              *)
(***************************************************************************)
Base == 10000
FxOne == <<0, 0, Base>>

FxMul(a, b) ==
  LET c0 == a[1] * b[1]
      c1 == a[1] * b[2] + a[2] * b[1]
      c2 == a[1] * b[3] + a[2] * b[2] + a[3] * b[1]
      c3 == a[2] * b[3] + a[3] * b[2]
      c4 == a[3] * b[3]
      t1 == c1 + (c0 \div Base)
      t2 == c2 + (t1 \div Base)
      t3 == c3 + (t2 \div Base)
      t4 == c4 + (t3 \div Base)
  IN  <<t3 % Base, t4 % Base, t4 \div Base>>

FxDiv(a, k) ==
  LET r2 == a[3] % k
      r1 == (r2 * Base + a[2]) % k
  IN  <<(r1 * Base + a[1]) \div k, (r2 * Base + a[2]) \div k, a[3] \div k>>

FxSub(a, b) ==
  LET d0 == a[1] - b[1]
      b0 == IF d0 < 0 THEN 1 ELSE 0
      d1 == a[2] - b[2] - b0
      b1 == IF d1 < 0 THEN 1 ELSE 0
  IN  <<d0 + b0 * Base, d1 + b1 * Base, a[3] - b[3] - b1>>

FxTimes10(a) ==
  LET t0 == a[1] * 10
      t1 == a[2] * 10 + (t0 \div Base)
  IN  <<t0 % Base, t1 % Base, a[3] * 10 + (t1 \div Base)>>

TaylorTerms == 12

RECURSIVE ExpNegHorner(_, _, _)
\* 1 - f/k * (1 - f/(k+1) * (... (1 - f/TaylorTerms))): exp(-f) for 0 <= f < 1.
\* Each partial result is computed (the test on its top limb, which is never
\* negative) before the next step starts.
ExpNegHorner(f, k, acc) ==
  IF k = 0 THEN acc
  ELSE LET next == FxSub(FxOne, FxDiv(FxMul(f, acc), k))
       IN  IF next[3] >= 0 THEN ExpNegHorner(f, k - 1, next) ELSE next

ExpNegFrac(f) == ExpNegHorner(f, TaylorTerms, FxOne)

\* exp(-n) for n = 0..12
ExpNegInt ==
  << <<0, 0, 10000>>, <<1171, 7944, 3678>>, <<3237, 3528, 1353>>,
     <<8368, 8706, 497>>, <<8889, 1563, 183>>, <<6999, 3794, 67>>,
     <<2177, 7875, 24>>, <<1966, 1188, 9>>, <<2628, 3546, 3>>,
     <<9804, 2340, 1>>, <<9930, 4539, 0>>, <<1701, 1670, 0>>,
     <<4212, 614, 0>> >>

\* exp(-(n + f)) for an integer n in 0..12 and a fraction 0 <= f < 1
FxExpNeg(n, f) == FxMul(ExpNegInt[n + 1], ExpNegFrac(f))

(***************************************************************************)
(* calculate_smart2_risk.  Parameters carry the prefix p_ so that they do  *)
(* not share a name with the widget variables below.                       *)
(***************************************************************************)
\* Variant: the 30-60 band tested without its lower end ("if egfr < 60").
Egfr30to60NoLowerEnd(p_egfr) == IF p_egfr < 60 THEN CoefEgfr30to60 ELSE 0

EgfrLt30(p_egfr) == IF p_egfr < 30 THEN CoefEgfrLt30 ELSE 0

Egfr30to60(p_egfr) == IF 30 <= p_egfr /\ p_egfr < 60 THEN CoefEgfr30to60 ELSE 0

Polyvascular(p_vasc_count) == IF p_vasc_count >= 2 THEN CoefPolyvascular ELSE 0

\* the linear predictor lp, in units of 10^-5
LinearPredictor(p_age, p_sex, p_diabetes, p_smoker, p_egfr, p_vasc_count, p_ldl, p_sbp) ==
  10 * ( CoefIntercept
       + CoefAge * (p_age - 60)
       + CoefFemale * (IF p_sex = "Female" THEN 1 ELSE 0)
       + CoefDiabetes * (IF p_diabetes THEN 1 ELSE 0)
       + CoefSmoker * (IF p_smoker THEN 1 ELSE 0)
       + EgfrLt30(p_egfr)
       + Egfr30to60(p_egfr)
       + Polyvascular(p_vasc_count)
       + CoefSbp * (p_sbp - 120) )
  + CoefLdl * (p_ldl - 25)

\* round(100 * (1 - np.exp(-np.exp(lp) * 10)), 1), in tenths, for lp < 0
SurvivalRisk(lp) ==
  LET y == 0 - lp
      f5 == y % 100000
      e == FxExpNeg(y \div 100000, <<0, (f5 % 10) * 1000, f5 \div 10>>)
      h == FxTimes10(e)
      x == FxExpNeg(h[3] \div Base, <<h[1], h[2], h[3] % Base>>)
      r == FxSub(FxOne, x)
  IN  (r[3] + 5) \div 10

\* The linear predictors of the values the widgets are moved to, and the risk
\* of each, tabulated once.
LpDomain ==
  {LinearPredictor(a, s, d, m, e, v, l, b) :
     a \in AgeChoices \cup CallAges, s \in SexChoices, d \in BOOLEAN, m \in BOOLEAN,
     e \in EgfrChoices, v \in 0..3, l \in LdlChoices \cup CallLdls, b \in SbpChoices}

RiskTable == [lp \in LpDomain |-> SurvivalRisk(lp)]

calculate_smart2_risk(p_age, p_sex, p_diabetes, p_smoker, p_egfr, p_vasc_count, p_ldl, p_sbp) ==
  RiskTable[LinearPredictor(p_age, p_sex, p_diabetes, p_smoker, p_egfr, p_vasc_count, p_ldl, p_sbp)]

(***************************************************************************)
(* Treatment effects, projected risk and recommendations (script level).   *)
(***************************************************************************)
RrStatinModerate == 25
RrStatinHigh == 35
RrEzetimibe == 6
RrPcsk9i == 15
RrSbpTarget == 15
SbpTargetThreshold == 130
VeryHighThreshold == 30
HighThreshold == 20

\* Variant: the two intensities exchanged.
StatinEffectSwapped(p_statin) ==
  IF p_statin = "Moderate" THEN RrStatinHigh
  ELSE IF p_statin = "High" THEN RrStatinModerate
  ELSE 0

\* Variant: "if" in place of "elif", high intensity counted on top of moderate.
StatinEffectCumulative(p_statin) ==
  IF p_statin = "Moderate" THEN RrStatinModerate
  ELSE IF p_statin = "High" THEN RrStatinModerate + RrStatinHigh
  ELSE 0

\* Variant: the target compared with "<=".
SbpTargetEffectInclusive(p_sbp_target) ==
  IF p_sbp_target <= SbpTargetThreshold THEN RrSbpTarget ELSE 0

\* Variant: the reduction added to the baseline instead of taken off it.
ProjectedRiskAdded(baseline, rr) == baseline * (100 + rr)

\* Variant: the ladder compared with ">=".
RecommendationsInclusive(p) ==
  IF p >= 30 * 1000 THEN {"VeryHigh"}
  ELSE IF p >= 20 * 1000 THEN {"High"}
  ELSE {"Moderate"}

StatinEffect(p_statin) ==
  IF p_statin = "Moderate" THEN RrStatinModerate
  ELSE IF p_statin = "High" THEN RrStatinHigh
  ELSE 0

EzetimibeEffect(p_ezetimibe) == IF p_ezetimibe THEN RrEzetimibe ELSE 0

Pcsk9iEffect(p_pcsk9i) == IF p_pcsk9i THEN RrPcsk9i ELSE 0

SbpTargetEffect(p_sbp_target) == IF p_sbp_target < SbpTargetThreshold THEN RrSbpTarget ELSE 0

\* rr_reduction = 0, then the four "if ...: rr_reduction += ..." statements
RrReduction(p_statin, p_ezetimibe, p_pcsk9i, p_sbp_target) ==
  0 + StatinEffect(p_statin) + EzetimibeEffect(p_ezetimibe)
    + Pcsk9iEffect(p_pcsk9i) + SbpTargetEffect(p_sbp_target)

\* baseline_risk * (1 - rr_reduction/100): tenths * percent = thousandths
ProjectedRisk(baseline, rr) == baseline * (100 - rr)

\* f"{projected_risk:.1f}": the tenths the display can show.  The float product
\* is within rounding error of the exact value, so off a tie the nearest tenth is
\* shown; on an exact tie (x.x5) the binary value decides and either neighbour
\* can appear.
FormatOneDecimal(p) ==
  IF p % 100 = 50 THEN {p \div 100, (p \div 100) + 1}
  ELSE {(p + 50) \div 100}

\* the if / elif / else ladder: the recommendation blocks the run renders
Recommendations(p) ==
  IF p > VeryHighThreshold * 1000 THEN {"VeryHigh"}
  ELSE IF p > HighThreshold * 1000 THEN {"High"}
  ELSE {"Moderate"}

(***************************************************************************)
(* State: the session's widget values and the values of the last run.      *)
(***************************************************************************)
VARIABLES age, sex, diabetes, smoker, weight, egfr, vasc_cor, vasc_cer,
          vasc_per, ldl, sbp, statin, ezetimibe, pcsk9i, sbp_target,
          baseline_risk, rr_reduction, projected_risk, recommendations, call

profile == <<age, sex, diabetes, smoker, egfr, vasc_cor, vasc_cer, vasc_per, ldl, sbp>>
plan == <<statin, ezetimibe, pcsk9i, sbp_target>>
others == <<weight>>
results == <<baseline_risk, rr_reduction, projected_risk, recommendations>>
vars == <<profile, plan, others, results, call>>

BoolCount(flag) == IF flag THEN 1 ELSE 0

\* vasc_count = sum([vasc_cor, vasc_cer, vasc_per])
VascCount(cor, cer, per) == BoolCount(cor) + BoolCount(cer) + BoolCount(per)

\* no direct call made yet
NoCall ==
  [age |-> 0, sex |-> "Male", diabetes |-> FALSE, smoker |-> FALSE, egfr |-> 0,
   vasc_count |-> 0, ldl |-> 0, sbp |-> 0, outcome |-> "none", value |-> 0]

\* The first run of the script: every widget holds its default value.
Init ==
  /\ age = AgeDefault
  /\ sex = "Male"
  /\ diabetes = FALSE
  /\ smoker = FALSE
  /\ weight = WeightDefault
  /\ egfr = EgfrDefault
  /\ vasc_cor = FALSE
  /\ vasc_cer = FALSE
  /\ vasc_per = FALSE
  /\ ldl = LdlDefault
  /\ sbp = SbpDefault
  /\ statin = "None"
  /\ ezetimibe = FALSE
  /\ pcsk9i = FALSE
  /\ sbp_target = TargetDefault
  /\ baseline_risk = calculate_smart2_risk(AgeDefault, "Male", FALSE, FALSE,
                                           EgfrDefault, 0, LdlDefault, SbpDefault)
  /\ rr_reduction = RrReduction("None", FALSE, FALSE, TargetDefault)
  /\ projected_risk = ProjectedRisk(baseline_risk, rr_reduction)
  /\ recommendations = Recommendations(projected_risk)
  /\ call = NoCall

\* Variant: rr_reduction kept across runs (the "rr_reduction = 0" reset lost).
RerunAccumulating ==
  /\ baseline_risk' = calculate_smart2_risk(age', sex', diabetes', smoker', egfr',
                          VascCount(vasc_cor', vasc_cer', vasc_per'), ldl', sbp')
  /\ rr_reduction' = rr_reduction + RrReduction(statin', ezetimibe', pcsk9i', sbp_target')
  /\ projected_risk' = ProjectedRisk(baseline_risk', rr_reduction')
  /\ recommendations' = Recommendations(projected_risk')
  /\ UNCHANGED call

\* Section 4 of the script, executed on the widget values of the new run.
Rerun ==
  /\ baseline_risk' = calculate_smart2_risk(age', sex', diabetes', smoker', egfr',
                          VascCount(vasc_cor', vasc_cer', vasc_per'), ldl', sbp')
  /\ rr_reduction' = RrReduction(statin', ezetimibe', pcsk9i', sbp_target')
  /\ projected_risk' = ProjectedRisk(baseline_risk', rr_reduction')
  /\ recommendations' = Recommendations(projected_risk')
  /\ UNCHANGED call

SetAge ==
  \E v \in AgeChoices \ {age} :
    /\ age' = v
    /\ UNCHANGED <<sex, diabetes, smoker, egfr, vasc_cor, vasc_cer, vasc_per, ldl, sbp>>
    /\ UNCHANGED <<plan, others>>
    /\ Rerun

SetSex ==
  \E v \in SexChoices \ {sex} :
    /\ sex' = v
    /\ UNCHANGED <<age, diabetes, smoker, egfr, vasc_cor, vasc_cer, vasc_per, ldl, sbp>>
    /\ UNCHANGED <<plan, others>>
    /\ Rerun

ToggleDiabetes ==
  /\ diabetes' = ~diabetes
  /\ UNCHANGED <<age, sex, smoker, egfr, vasc_cor, vasc_cer, vasc_per, ldl, sbp>>
  /\ UNCHANGED <<plan, others>>
  /\ Rerun

ToggleSmoker ==
  /\ smoker' = ~smoker
  /\ UNCHANGED <<age, sex, diabetes, egfr, vasc_cor, vasc_cer, vasc_per, ldl, sbp>>
  /\ UNCHANGED <<plan, others>>
  /\ Rerun

SetWeight ==
  \E v \in WeightChoices \ {weight} :
    /\ weight' = v
    /\ UNCHANGED <<profile, plan>>
    /\ Rerun

SetLdl ==
  \E v \in LdlChoices \ {ldl} :
    /\ ldl' = v
    /\ UNCHANGED <<age, sex, diabetes, smoker, egfr, vasc_cor, vasc_cer, vasc_per, sbp>>
    /\ UNCHANGED <<plan, others>>
    /\ Rerun

SetSbp ==
  \E v \in SbpChoices \ {sbp} :
    /\ sbp' = v
    /\ UNCHANGED <<age, sex, diabetes, smoker, egfr, vasc_cor, vasc_cer, vasc_per, ldl>>
    /\ UNCHANGED <<plan, others>>
    /\ Rerun

SetEgfr ==
  \E v \in EgfrChoices \ {egfr} :
    /\ egfr' = v
    /\ UNCHANGED <<age, sex, diabetes, smoker, vasc_cor, vasc_cer, vasc_per, ldl, sbp>>
    /\ UNCHANGED <<plan, others>>
    /\ Rerun

ToggleVascCor ==
  /\ vasc_cor' = ~vasc_cor
  /\ UNCHANGED <<age, sex, diabetes, smoker, egfr, vasc_cer, vasc_per, ldl, sbp>>
  /\ UNCHANGED <<plan, others>>
  /\ Rerun

ToggleVascCer ==
  /\ vasc_cer' = ~vasc_cer
  /\ UNCHANGED <<age, sex, diabetes, smoker, egfr, vasc_cor, vasc_per, ldl, sbp>>
  /\ UNCHANGED <<plan, others>>
  /\ Rerun

ToggleVascPer ==
  /\ vasc_per' = ~vasc_per
  /\ UNCHANGED <<age, sex, diabetes, smoker, egfr, vasc_cor, vasc_cer, ldl, sbp>>
  /\ UNCHANGED <<plan, others>>
  /\ Rerun

SetStatin ==
  \E v \in StatinChoices \ {statin} :
    /\ statin' = v
    /\ UNCHANGED <<ezetimibe, pcsk9i, sbp_target>>
    /\ UNCHANGED <<profile, others>>
    /\ Rerun

ToggleEzetimibe ==
  /\ ezetimibe' = ~ezetimibe
  /\ UNCHANGED <<statin, pcsk9i, sbp_target>>
  /\ UNCHANGED <<profile, others>>
  /\ Rerun

\* st.checkbox("PCSK9 inhibitor", disabled=ldl < 1.8): a disabled checkbox
\* cannot be clicked.  Its value is kept in the session, and the run reads it.
TogglePcsk9i ==
  /\ ~(ldl < Pcsk9LdlThreshold)
  /\ pcsk9i' = ~pcsk9i
  /\ UNCHANGED <<statin, ezetimibe, sbp_target>>
  /\ UNCHANGED <<profile, others>>
  /\ Rerun

SetSbpTarget ==
  \E v \in TargetChoices \ {sbp_target} :
    /\ sbp_target' = v
    /\ UNCHANGED <<statin, ezetimibe, pcsk9i>>
    /\ UNCHANGED <<profile, others>>
    /\ Rerun

Next ==
  \/ SetAge
  \/ SetSex
  \/ ToggleDiabetes
  \/ ToggleSmoker
  \/ SetWeight
  \/ SetLdl
  \/ SetSbp
  \/ SetEgfr
  \/ ToggleVascCor
  \/ ToggleVascCer
  \/ ToggleVascPer
  \/ SetStatin
  \/ ToggleEzetimibe
  \/ TogglePcsk9i
  \/ SetSbpTarget

Spec == Init /\ [][Next]_vars

(***************************************************************************)
(* A direct call of calculate_smart2_risk (a caller other than the form).  *)
(* The function has no raise statement and its arithmetic cannot fail, so  *)
(* every call returns a value.                                             *)
(***************************************************************************)
CallRisk ==
  \E a \in CallAges, s \in SexChoices, d \in BOOLEAN, m \in BOOLEAN, l \in CallLdls :
    /\ call' = [age |-> a, sex |-> s, diabetes |-> d, smoker |-> m,
                egfr |-> EgfrDefault, vasc_count |-> 0, ldl |-> l, sbp |-> SbpDefault,
                outcome |-> "returned",
                value |-> calculate_smart2_risk(a, s, d, m, EgfrDefault, 0, l, SbpDefault)]
    /\ UNCHANGED <<profile, plan, others, results>>

SpecCall == Init /\ [][CallRisk]_vars

(***************************************************************************)
(* Properties.  Risks are in tenths of a percent (baseline_risk) and in    *)
(* thousandths (projected_risk); LDL-C is in tenths of a mmol/L.           *)
(***************************************************************************)

\* C1: in every reachable state the PCSK9 inhibitor adds its 15 points to the
\* relative risk reduction only if the patient's LDL-C is at least 1.8 mmol/L:
\* below 1.8 the reduction is that of the other three therapies alone.
C1_Pcsk9iOnlyFromLdlThreshold ==
  ldl < 18 =>
    rr_reduction = StatinEffect(statin) + EzetimibeEffect(ezetimibe)
                   + SbpTargetEffect(sbp_target)

\* C2: in every reachable state 0 <= projected risk <= baseline risk <= 100 %
\* and 0 <= relative risk reduction <= 100 %.
C2_RiskBounds ==
  /\ 0 <= projected_risk
  /\ projected_risk <= baseline_risk * 100
  /\ baseline_risk <= 100 * 10
  /\ 0 <= rr_reduction
  /\ rr_reduction <= 100

\* a full plan applied to the largest baseline of the form
C2_Witness ==
  /\ rr_reduction = 71
  /\ baseline_risk = 793
  /\ projected_risk = 22997

\* C3: a direct call with an age outside 30..90 or an LDL-C outside 0.5..6.0
\* ends in a ValidationError and returns no risk, and a call with both inside
\* their domains (the bounds included) returns a risk.
C3_ValidationErrorOutsideDomain ==
  call.outcome # "none" =>
    (call.outcome = "ValidationError"
       <=> (call.age < 30 \/ call.age > 90 \/ call.ldl < 5 \/ call.ldl > 60))

\* C4: exactly one tier holds in every reachable state, and the thresholds are
\* strict: Very High above 30 %, High above 20 % up to 30 %, Moderate up to
\* 20 %, so 30.0 is High and 20.0 is Moderate.
C4_TierThresholds ==
  /\ Cardinality(recommendations) = 1
  /\ recommendations \subseteq {"VeryHigh", "High", "Moderate"}
  /\ "VeryHigh" \in recommendations <=> projected_risk > 30000
  /\ "High" \in recommendations <=> (projected_risk > 20000 /\ projected_risk <= 30000)
  /\ "Moderate" \in recommendations <=> projected_risk <= 20000

\* a projected risk of exactly 30.0 %: a baseline of 40.0 % under a moderate statin
C4_Witness ==
  /\ baseline_risk = 400
  /\ rr_reduction = 25
  /\ projected_risk = 30000
  /\ recommendations = {"High"}

\* C5: the relative risk reduction is the plain sum of the selected therapies:
\* moderate statin 25, high statin 35, ezetimibe 6, PCSK9 inhibitor 15, and 15
\* for a blood pressure target strictly below 130 (a target of exactly 130 adds
\* nothing).  High statin with ezetimibe gives 41, all four give 71, and a
\* baseline of 37.4 % under all four projects to 10.8 %, Moderate.
C5_AdditiveReduction ==
  /\ rr_reduction =
       (IF statin = "Moderate" THEN 25 ELSE IF statin = "High" THEN 35 ELSE 0)
       + (IF ezetimibe THEN 6 ELSE 0)
       + (IF pcsk9i THEN 15 ELSE 0)
       + (IF sbp_target < 130 THEN 15 ELSE 0)
  /\ (statin = "High" /\ ezetimibe /\ ~pcsk9i /\ sbp_target = 130) => rr_reduction = 41
  /\ (statin = "High" /\ ezetimibe /\ pcsk9i /\ sbp_target < 130) => rr_reduction = 71
  /\ (baseline_risk = 374 /\ rr_reduction = 71) =>
       /\ FormatOneDecimal(projected_risk) = {108}
       /\ recommendations = {"Moderate"}

\* a baseline of 37.4 % under all four therapies
C5_Witness ==
  /\ baseline_risk = 374
  /\ statin = "High" /\ ezetimibe /\ pcsk9i /\ sbp_target < 130
  /\ rr_reduction = 71

StatinRank(s) == IF s = "High" THEN 2 ELSE IF s = "Moderate" THEN 1 ELSE 0

\* plan 2 has every therapy of plan 1, at the same or a higher statin intensity
PlanIncludes(s2, e2, p2, t2, s1, e1, p1, t1) ==
  /\ StatinRank(s2) >= StatinRank(s1)
  /\ e1 => e2
  /\ p1 => p2
  /\ (t1 < 130) => (t2 < 130)

\* C6: for a fixed patient, a plan that adds a therapy or raises the statin
\* intensity never projects a higher risk: every plan that includes the current
\* one projects at most the current projected risk.
C6_MoreTherapyNeverRaisesRisk ==
  \A s2 \in StatinChoices, e2 \in BOOLEAN, p2 \in BOOLEAN, t2 \in TargetChoices :
    PlanIncludes(s2, e2, p2, t2, statin, ezetimibe, pcsk9i, sbp_target) =>
      ProjectedRisk(baseline_risk, RrReduction(s2, e2, p2, t2)) <= projected_risk

\* a state with a risk to reduce, a therapy applied, and larger plans to compare with
C6_Witness ==
  /\ statin = "Moderate"
  /\ ~ezetimibe
  /\ baseline_risk = 374
  /\ projected_risk = 374 * 75

\* C7: the results are a function of the patient profile and the therapy plan
\* alone: in every reachable state, whatever was computed before and whatever
\* the other inputs hold, they are the values computed from the current profile
\* and plan, so two states with the same profile and plan have the same results.
C7_ResultsFromProfileAndPlan ==
  /\ baseline_risk = calculate_smart2_risk(age, sex, diabetes, smoker, egfr,
                        VascCount(vasc_cor, vasc_cer, vasc_per), ldl, sbp)
  /\ rr_reduction = RrReduction(statin, ezetimibe, pcsk9i, sbp_target)
  /\ projected_risk = ProjectedRisk(baseline_risk, rr_reduction)
  /\ recommendations = Recommendations(projected_risk)

\* another input changed, after a plan was applied to a patient at risk
C7_Witness ==
  /\ weight # WeightDefault
  /\ rr_reduction = 56
  /\ baseline_risk = 213
  /\ projected_risk = 213 * 44

\* the eGFR terms of the linear predictor, in 10^-4 units
EgfrTerms(e) == EgfrLt30(e) + Egfr30to60(e)

\* the bands, for every eGFR the slider can give
EgfrBandsPiecewise ==
  \A e \in 15..120 :
    /\ EgfrTerms(e) = (IF e < 30 THEN 9235 ELSE IF e < 60 THEN 5539 ELSE 0)
    /\ ~(EgfrLt30(e) # 0 /\ Egfr30to60(e) # 0)

\* C8: for every eGFR of 15..120 the kidney term is 0.9235 below 30, 0.5539
\* from 30 up to but not including 60, and 0 from 60; the two coefficients are
\* never both applied; and the form's linear predictor carries that term.
C8_EgfrBands ==
  /\ EgfrBandsPiecewise
  /\ LinearPredictor(age, sex, diabetes, smoker, egfr,
                     VascCount(vasc_cor, vasc_cer, vasc_per), ldl, sbp)
     - LinearPredictor(age, sex, diabetes, smoker, 60,
                       VascCount(vasc_cor, vasc_cer, vasc_per), ldl, sbp)
     = 10 * (IF egfr < 30 THEN 9235 ELSE IF egfr < 60 THEN 5539 ELSE 0)

\* a patient in the lowest band, whose risk carries the 0.9235 term
C8_Witness ==
  /\ egfr = 25
  /\ age = 90
  /\ baseline_risk = 200

\* C9: the tier agrees with the reported projected risk: a reported risk of at
\* most 30.0 % is never Very High and one of at most 20.0 % is never High.
C9_TierAgreesWithReportedRisk ==
  \A shown \in FormatOneDecimal(projected_risk) :
    /\ shown <= 300 => "VeryHigh" \notin recommendations
    /\ shown <= 200 => "High" \notin recommendations

\* the reduction of every plan the widgets can select
EveryPlanAtMost71 ==
  \A s \in StatinChoices, e \in BOOLEAN, p \in BOOLEAN, t \in TargetChoices :
    RrReduction(s, e, p, t) <= 71

\* C10: the reduction of any selectable plan is at most 71 (the statin
\* intensities exclude each other), so it never exceeds 100, the projected risk
\* is never negative, and it is 0 only when the baseline risk is 0.
C10_ReductionAtMost71 ==
  /\ EveryPlanAtMost71
  /\ rr_reduction <= 71
  /\ projected_risk >= 0
  /\ projected_risk = 0 => baseline_risk = 0

\* the largest selectable plan, applied to a baseline of 0
C10_Witness ==
  /\ rr_reduction = 71
  /\ baseline_risk = 0
  /\ projected_risk = 0

=============================================================================
